---- MODULE Spec2Model ----
(***************************************************************************)
(* The reading surface of ZenReader: the pagination engine and navigation  *)
(* controller of PagedReader.tsx, driven by the Reader component and the   *)
(* book store of Reader.tsx.                                               *)
(*                                                                         *)
(* One action is one event-loop task: the handler, the state updates it    *)
(* makes, the re-render they cause and the effects that re-render runs.    *)
(* Closures captured by effects (the page computation, the keydown         *)
(* listener, the image-load promises) are state of their own, so a stale   *)
(* capture is visible.                                                     *)
(***************************************************************************)
EXTENDS Integers, Sequences, FiniteSets, TLC

\* ------------------------------------------------------------- bounds
MaxPageIndex == 2       \* page indices in 0..MaxPageIndex
MaxScroll == 4          \* measured scroll widths in 0..MaxScroll
MaxImages == 1          \* images still loading in one chapter's content
ClockStep == 250        \* the most ms that pass in one step of the clock
MaxText == 4            \* characters in a text run given to the matcher
MaxInFlight == 2        \* saveBook calls that have not settled
MaxHighlights == 1      \* highlights added to the book

\* Viewport sizes the resize observer may report (contentRect width, height).
Widths == {0, 2, 3}
Heights == {4, 5, 7}

\* Drag releases: PanInfo.offset.x and PanInfo.velocity.x.
DragOffsets == {-60, -50, 0, 50, 60}
DragVelocities == {-600, -500, 0, 500, 600}

Keys == {"ArrowRight", "PageDown", "ArrowLeft", "PageUp", "Enter"}

\* book.chapters as stored: arrays in no particular order.
TwoChapters == << [id |-> "b", order |-> 1], [id |-> "a", order |-> 0] >>
ThreeChapters ==
    << [id |-> "b", order |-> 1], [id |-> "c", order |-> 2], [id |-> "a", order |-> 0] >>

None == [none |-> TRUE]

\* A history variable that the specification at hand does not record.
Off == [off |-> TRUE]

\* ------------------------------------------------- JavaScript numbers
\* totalPages is a JavaScript number: Math.ceil(s / 0) is Infinity for s > 0
\* and NaN for s = 0. Both are kept apart from the integers by a sentinel.
NaN == -1
Infinity == -2

IsFinite(x) == x # NaN /\ x # Infinity

\* a < b
JsLt(a, b) ==
    IF a = NaN \/ b = NaN THEN FALSE
    ELSE IF a = Infinity THEN FALSE
    ELSE IF b = Infinity THEN TRUE
    ELSE a < b

\* a >= b
JsGe(a, b) ==
    IF a = NaN \/ b = NaN THEN FALSE
    ELSE IF a = Infinity THEN TRUE
    ELSE IF b = Infinity THEN FALSE
    ELSE a >= b

\* a !== b
JsStrictNeq(a, b) == IF a = NaN \/ b = NaN THEN TRUE ELSE a # b

\* a - 1
JsPred(a) == IF IsFinite(a) THEN a - 1 ELSE a

\* Math.ceil(s / w) for s >= 0, w >= 0
JsCeilDiv(s, w) ==
    IF w = 0 THEN (IF s = 0 THEN NaN ELSE Infinity)
    ELSE (s + w - 1) \div w

\* Math.max(1, x)
JsMax1(x) == IF IsFinite(x) THEN (IF x > 1 THEN x ELSE 1) ELSE x

Abs(x) == IF x < 0 THEN -x ELSE x

\* --------------------------------------------------------------- book
RECURSIVE InsertByOrder(_, _)
InsertByOrder(c, sorted) ==
    IF sorted = << >> THEN << c >>
    ELSE IF c.order < Head(sorted).order THEN << c >> \o sorted
    ELSE << Head(sorted) >> \o InsertByOrder(c, Tail(sorted))

\* The chapters taken in the order of the array.
sortedChapters_ArrayOrder(arr) == arr

\* [...book.chapters].sort((a, b) => a.order - b.order)
RECURSIVE sortedChapters(_)
sortedChapters(arr) ==
    IF arr = << >> THEN << >>
    ELSE InsertByOrder(arr[Len(arr)], sortedChapters(SubSeq(arr, 1, Len(arr) - 1)))

ChapterIds(arr) == { arr[i].id : i \in 1..Len(arr) }

\* findIndex: 0-based, -1 when absent.
currentChapterIndex(arr, chapterId) ==
    LET sorted == sortedChapters(arr)
    IN  IF \E i \in 1..Len(sorted) : sorted[i].id = chapterId
        THEN (CHOOSE i \in 1..Len(sorted) : sorted[i].id = chapterId) - 1
        ELSE -1

hasPrev(arr, chapterId) == currentChapterIndex(arr, chapterId) > 0

hasNext(arr, chapterId) ==
    /\ currentChapterIndex(arr, chapterId) > -1
    /\ currentChapterIndex(arr, chapterId) < Len(sortedChapters(arr)) - 1

\* The onNextChapter / onPrevChapter props of one render: the chapter the
\* collaborator selects, or None when the prop is undefined.
onNextChapter(arr, chapterId) ==
    IF hasNext(arr, chapterId)
    THEN [id |-> sortedChapters(arr)[currentChapterIndex(arr, chapterId) + 2].id]
    ELSE None

onPrevChapter(arr, chapterId) ==
    IF hasPrev(arr, chapterId)
    THEN [id |-> sortedChapters(arr)[currentChapterIndex(arr, chapterId)].id]
    ELSE None

\* -------------------------------------------------------------- state
VARIABLES
    chapters,           \* book.chapters
    currentChapterId,   \* store: the chapter being read
    currentPageIndex,   \* store: the 0-based page index
    readerTotalPages,   \* Reader's totalPages state (footer, handleNextPage)
    totalPages,         \* PagedReader's totalPages state
    layoutDims,         \* PagedReader's layoutDims state: None or [width, height]
    effect,             \* closure of the live page-computation effect: None or [idx, w]
    timer,              \* the 100 ms timeout is pending
    textTimer,          \* the 500 ms timeout is pending
    keydown,            \* closure of the installed keydown listener: [idx, total, chapter]
    pendingImages,      \* <img> elements of the rendered content with complete = false
    imageWait,          \* closure whose Promise.all waits on those images: None or [idx, w]
    detachedWait,       \* the same for images of a replaced content: None or [left, idx, w]
    clampCount,         \* history: clamping notifications since the page count last changed
    lastCalc,           \* history: None or the [w, s] the latest calculatePages run used
    ev,                 \* history: the latest task: [op, arg, intents, calls, notes, calc, cl]
    mounted,            \* the reading surface is mounted (contentRef.current is set)
    saveTimeout,        \* Reader's pending progress-save timeout: None or [ms] left
    saveHist,           \* history: [since, saves, burst]: ms and saves since the last
                        \* change, changes (up to 2) since the last save
    props,              \* props of a component rendered on its own (a pure function's input)
    output,             \* what that component rendered: None before it has
    book,               \* store: the book apart from its chapters, None for null
    saving,             \* saveBook calls that have not settled: [book, then]
    saved,              \* the book last handed to saveBook, None before any
    raceHist            \* history: None or the [id] of a highlight added while a
                        \* saveReadingProgress awaited its save

vars == << chapters, currentChapterId, currentPageIndex, readerTotalPages, totalPages, layoutDims,
           effect, timer, textTimer, keydown, pendingImages, imageWait, detachedWait,
           lastCalc, clampCount, ev, mounted, saveTimeout, saveHist, props, output,
           book, saving, saved, raceHist >>

\* ------------------------------------------------------ pure helpers
\* The updater comparing the width alone.
LayoutChanged_WidthOnly(prev, width, height) ==
    \/ prev = None
    \/ Abs(prev.width - width) > 1

\* ResizeObserver callback: the setLayoutDims updater replaces the state.
LayoutChanged(prev, width, height) ==
    \/ prev = None
    \/ Abs(prev.width - width) > 1
    \/ Abs(prev.height - height) > 1

\* calculatePages: the page count from the measured scroll width.
PageCount(scrollWidth, width) == JsMax1(JsCeilDiv(scrollWidth, width))

\* calculatePages: the setTotalPages updater notifies and replaces the state.
TotalChanged(prev, pages) == JsStrictNeq(prev, pages)

\* calculatePages: the safety check on the captured page index.
NeedsClamp(capturedIndex, pages) == JsGe(capturedIndex, pages)

PageChange(n) == [fn |-> "onPageChange", page |-> n]
TotalPagesChange(n) == [fn |-> "onTotalPagesChange", total |-> n]
NextChapter(id) == [fn |-> "onNextChapter", chapter |-> id]
PrevChapter(id) == [fn |-> "onPrevChapter", chapter |-> id]

\* goToNextPage turning the page on the last page as well.
goToNextPage_PastLastPage(pageIndex, total, next) ==
    IF JsLt(pageIndex, total) THEN << PageChange(pageIndex + 1) >>
    ELSE IF next # None THEN << NextChapter(next.id) >>
    ELSE << >>

\* goToNextPage with the props and state of one render: the callbacks it invokes.
goToNextPage(pageIndex, total, next) ==
    IF JsLt(pageIndex, JsPred(total)) THEN << PageChange(pageIndex + 1) >>
    ELSE IF next # None THEN << NextChapter(next.id) >>
    ELSE << >>

\* goToPrevPage turning the page back on the first page as well.
goToPrevPage_BeforeFirstPage(pageIndex, prev) ==
    IF pageIndex >= 0 THEN << PageChange(pageIndex - 1) >>
    ELSE IF prev # None THEN << PrevChapter(prev.id) >>
    ELSE << >>

\* goToPrevPage with the props of one render: the callbacks it invokes.
goToPrevPage(pageIndex, prev) ==
    IF pageIndex > 0 THEN << PageChange(pageIndex - 1) >>
    ELSE IF prev # None THEN << PrevChapter(prev.id) >>
    ELSE << >>

\* handleKeyDown: the intents a key raises, in order.
KeyIntents(key) ==
    IF key = "ArrowRight" \/ key = "PageDown" THEN << "advance" >>
    ELSE IF key = "ArrowLeft" \/ key = "PageUp" THEN << "retreat" >>
    ELSE << >>

SWIPE_THRESHOLD == 50
SWIPE_VELOCITY == 500

\* onDragEnd with two independent tests instead of if / else if.
DragIntents_BothTests(offsetX, velocityX) ==
    (IF offsetX < -SWIPE_THRESHOLD \/ velocityX < -SWIPE_VELOCITY
     THEN << "advance" >> ELSE << >>)
    \o (IF offsetX > SWIPE_THRESHOLD \/ velocityX > SWIPE_VELOCITY
        THEN << "retreat" >> ELSE << >>)

\* onDragEnd: the intents a drag release raises, in order.
DragIntents(offsetX, velocityX) ==
    IF offsetX < -SWIPE_THRESHOLD \/ velocityX < -SWIPE_VELOCITY THEN << "advance" >>
    ELSE IF offsetX > SWIPE_THRESHOLD \/ velocityX > SWIPE_VELOCITY THEN << "retreat" >>
    ELSE << >>

SAVE_DELAY == 500

\* The progress-save effect keeping a timeout that is already pending.
saveProgressDebounced_KeepPending(pending) ==
    IF pending = None THEN [ms |-> SAVE_DELAY] ELSE pending

\* The progress-save effect runs anew: the cleanup of its previous run clears
\* the pending timeout, saveProgressDebounced sets a new one. The ms left of
\* the timeout now pending.
saveProgressDebounced(pending) == [ms |-> SAVE_DELAY]

\* The next button disabled on the last page whatever the collaborator.
NextButtonDisabled_LastPage(pageIndex, total, next) ==
    ~JsLt(pageIndex, JsPred(total))

\* The disabled attribute of the two buttons.
PrevButtonDisabled(pageIndex, prev) == ~(pageIndex > 0 \/ prev # None)
NextButtonDisabled(pageIndex, total, next) ==
    ~(JsLt(pageIndex, JsPred(total)) \/ next # None)

\* The two buttons carry the classes opacity-0 pointer-events-none.
PrevButtonHidden(pageIndex, prev) == ~(pageIndex > 0 \/ prev # None)
NextButtonHidden(pageIndex, total, next) ==
    ~(JsLt(pageIndex, JsPred(total)) \/ next # None)


\* ReadingProgress: chapterId, pageIndex and the Date.now() of the save.
ReadingProgress(chapterId, pageIndex, now) ==
    [chapterId |-> chapterId, pageIndex |-> pageIndex, lastRead |-> now]

\* saveReadingProgress keeping a record the book already has.
saveReadingProgress_KeepEarlier(b, chapterId, pageIndex, now) ==
    IF b = None THEN None
    ELSE IF b.readingProgress # None THEN b
    ELSE [b EXCEPT !.readingProgress = ReadingProgress(chapterId, pageIndex, now)]

\* saveReadingProgress on the store's book b: the updatedBook it hands to
\* saveBook, None when it returns early for want of a book.
saveReadingProgress(b, chapterId, pageIndex, now) ==
    IF b = None THEN None
    ELSE [b EXCEPT !.readingProgress = ReadingProgress(chapterId, pageIndex, now)]

\* handleAddHighlight: the updatedBook with the new highlight appended.
AddHighlight(b, id, chapterId) ==
    [b EXCEPT !.highlights = Append(@, [id |-> id, chapterId |-> chapterId])]

\* saveBook(b) is called and awaited; then names what runs when it settles:
\* "set" for set({ book: b }), "onBookUpdate" for onBookUpdate(b).
SaveBookCall(b, then) == [book |-> b, then |-> then]

RemoveAt(seq, i) == SubSeq(seq, 1, i - 1) \o SubSeq(seq, i + 1, Len(seq))

\* ------------------------------------------------------------ matcher
\* Strings are sequences of characters, offsets are 0-based as in the code.
IsSpace(c) == c \in {" ", "\n", "\t"}

\* Case folding under the i flag.
ToLower(c) == IF c = "A" THEN "a" ELSE IF c = "B" THEN "b" ELSE c

\* text.slice(from, to)
Slice(str, from, to) == SubSeq(str, from + 1, to)

RECURSIVE TrimStart(_)
TrimStart(str) ==
    IF str # << >> /\ IsSpace(Head(str)) THEN TrimStart(Tail(str)) ELSE str

RECURSIVE TrimEnd(_)
TrimEnd(str) ==
    IF str # << >> /\ IsSpace(str[Len(str)])
    THEN TrimEnd(SubSeq(str, 1, Len(str) - 1)) ELSE str

\* str.trim()
Trim(str) == TrimEnd(TrimStart(str))

\* str.replace(/\s+/g, ' ')
RECURSIVE CollapseSpaces(_)
CollapseSpaces(str) ==
    IF str = << >> THEN << >>
    ELSE IF IsSpace(Head(str)) THEN << " " >> \o CollapseSpaces(TrimStart(str))
    ELSE << Head(str) >> \o CollapseSpaces(Tail(str))

\* str.split(' '), the word being read carried in word.
RECURSIVE SplitOnSpace(_, _)
SplitOnSpace(str, word) ==
    IF str = << >> THEN << word >>
    ELSE IF Head(str) = " " THEN << word >> \o SplitOnSpace(Tail(str), << >>)
    ELSE SplitOnSpace(Tail(str), Append(word, Head(str)))

RegExpSpecials == {".", "*", "+", "?", "^", "$", "{", "}", "(", ")", "|", "[", "]", "\\"}

\* str.replace(/[.*+?^${}()|[\]\\]/g, '\\$&')
RECURSIVE EscapeRegExp(_)
EscapeRegExp(str) ==
    IF str = << >> THEN << >>
    ELSE (IF Head(str) \in RegExpSpecials THEN << "\\", Head(str) >> ELSE << Head(str) >>)
         \o EscapeRegExp(Tail(str))

\* new RegExp(source): the atoms of a source without brackets. An escaped
\* character is a literal, a bare dot is any character but a newline.
RECURSIVE RegExpAtoms(_)
RegExpAtoms(source) ==
    IF source = << >> THEN << >>
    ELSE IF Head(source) = "\\" /\ Len(source) > 1
         THEN << [atom |-> "lit", c |-> source[2]] >> \o RegExpAtoms(Tail(Tail(source)))
    ELSE IF Head(source) = "."
         THEN << [atom |-> "any"] >> \o RegExpAtoms(Tail(source))
    ELSE << [atom |-> "lit", c |-> Head(source)] >> \o RegExpAtoms(Tail(source))

\* [\s\n]+
SpacesAtom == [atom |-> "spaces"]

\* The words joined by one literal space.
RECURSIVE JoinWords_SingleSpace(_)
JoinWords_SingleSpace(escaped) ==
    IF escaped = << >> THEN << >>
    ELSE IF Len(escaped) = 1 THEN RegExpAtoms(Head(escaped))
    ELSE RegExpAtoms(Head(escaped)) \o << [atom |-> "lit", c |-> " "] >>
         \o JoinWords_SingleSpace(Tail(escaped))

\* escaped.join('[\\s\\n]+') compiled
RECURSIVE JoinWords(_)
JoinWords(escaped) ==
    IF escaped = << >> THEN << >>
    ELSE IF Len(escaped) = 1 THEN RegExpAtoms(Head(escaped))
    ELSE RegExpAtoms(Head(escaped)) \o << SpacesAtom >> \o JoinWords(Tail(escaped))

\* The end of the whitespace run that starts at offset i.
RECURSIVE SpaceRunEnd(_, _)
SpaceRunEnd(text, i) ==
    IF i < Len(text) /\ IsSpace(text[i + 1]) THEN SpaceRunEnd(text, i + 1) ELSE i

\* The end of the match of atoms at offset i, or -1: the regular expression
\* engine, greedy and backtracking, case-insensitive.
RECURSIVE MatchAt(_, _, _)
MatchAt(text, i, atoms) ==
    IF atoms = << >> THEN i
    ELSE IF Head(atoms).atom = "lit"
         THEN IF i < Len(text) /\ ToLower(text[i + 1]) = ToLower(Head(atoms).c)
              THEN MatchAt(text, i + 1, Tail(atoms)) ELSE -1
    ELSE IF Head(atoms).atom = "any"
         THEN IF i < Len(text) /\ text[i + 1] # "\n"
              THEN MatchAt(text, i + 1, Tail(atoms)) ELSE -1
    ELSE LET ends == { k \in (i + 1)..SpaceRunEnd(text, i) :
                          MatchAt(text, k, Tail(atoms)) # -1 }
         IN  IF ends = { } THEN -1
             ELSE MatchAt(text, CHOOSE k \in ends : \A j \in ends : j <= k, Tail(atoms))

\* while ((match = regex.exec(text)) !== null): the matches of a g regular
\* expression from lastIndex on, each search resuming at the end of the match
\* before it.
RECURSIVE ExecAll(_, _, _)
ExecAll(text, atoms, lastIndex) ==
    LET starts == { i \in lastIndex..Len(text) : MatchAt(text, i, atoms) # -1 }
    IN  IF starts = { } THEN << >>
        ELSE LET i == CHOOSE k \in starts : \A j \in starts : k <= j
                 e == MatchAt(text, i, atoms)
             IN  << [start |-> i, end |-> e] >>
                 \o (IF e > i THEN ExecAll(text, atoms, e) ELSE << >>)
\* The search pass: every match of the escaped query, as typed.
SearchMatches(text, searchQuery) ==
    IF Trim(searchQuery) = << >> THEN << >>
    ELSE LET found == ExecAll(text, RegExpAtoms(EscapeRegExp(searchQuery)), 0)
         IN  [k \in 1..Len(found) |->
                 [start |-> found[k].start, end |-> found[k].end, type |-> "search",
                  priority |-> 1]]

\* The pass of one annotation, the index-th of the list (0-based).
NoteMatches(text, h, index) ==
    IF Trim(h.text) = << >> THEN << >>
    ELSE LET clean == Trim(CollapseSpaces(h.text))
             words == SplitOnSpace(clean, << >>)
             escaped == [k \in 1..Len(words) |-> EscapeRegExp(words[k])]
             found == ExecAll(text, JoinWords(escaped), 0)
         IN  [k \in 1..Len(found) |->
                 [start |-> found[k].start, end |-> found[k].end, type |-> "note",
                  data |-> [id |-> h.id, index |-> index + 1], priority |-> 2]]

\* chapterHighlights.forEach from the index-th annotation on.
RECURSIVE AllNoteMatches(_, _, _)
AllNoteMatches(text, chapterHighlights, index) ==
    IF index >= Len(chapterHighlights) THEN << >>
    ELSE NoteMatches(text, chapterHighlights[index + 1], index)
         \o AllNoteMatches(text, chapterHighlights, index + 1)

\* An insertion that puts a match before the matches of the same start.
RECURSIVE InsertByStart_BeforeEqual(_, _)
InsertByStart_BeforeEqual(m, sorted) ==
    IF sorted = << >> THEN << m >>
    ELSE IF m.start <= Head(sorted).start THEN << m >> \o sorted
    ELSE << Head(sorted) >> \o InsertByStart_BeforeEqual(m, Tail(sorted))

RECURSIVE InsertByStart(_, _)
InsertByStart(m, sorted) ==
    IF sorted = << >> THEN << m >>
    ELSE IF m.start < Head(sorted).start THEN << m >> \o sorted
    ELSE << Head(sorted) >> \o InsertByStart(m, Tail(sorted))

\* matches.sort((a, b) => a.start - b.start), a stable sort.
RECURSIVE SortByStart(_)
SortByStart(matches) ==
    IF matches = << >> THEN << >>
    ELSE InsertByStart(matches[Len(matches)],
                       SortByStart(SubSeq(matches, 1, Len(matches) - 1)))

\* The merged and sorted match list.
Matches(text, searchQuery, chapterHighlights) ==
    SortByStart(SearchMatches(text, searchQuery)
                \o AllNoteMatches(text, chapterHighlights, 0))

\* The elements pushed: a string, a <mark>, or a <span> with its [index].
TextElement(text, from, to) ==
    [type |-> "text", start |-> from, end |-> to, text |-> Slice(text, from, to)]

MatchElement(text, match) ==
    IF match.type = "search"
    THEN [type |-> "search", start |-> match.start, end |-> match.end,
          text |-> Slice(text, match.start, match.end)]
    ELSE [type |-> "note", start |-> match.start, end |-> match.end,
          text |-> Slice(text, match.start, match.end),
          id |-> match.data.id, index |-> match.data.index]

\* The loop without the test match.start < lastIndex.
RECURSIVE Elements_NoSkip(_, _, _)
Elements_NoSkip(text, matches, lastIndex) ==
    IF matches = << >>
    THEN IF lastIndex < Len(text) THEN << TextElement(text, lastIndex, Len(text)) >>
         ELSE << >>
    ELSE LET match == Head(matches)
         IN  (IF match.start > lastIndex
              THEN << TextElement(text, lastIndex, match.start) >> ELSE << >>)
             \o << MatchElement(text, match) >>
             \o Elements_NoSkip(text, Tail(matches), match.end)

\* The loop over the sorted matches, and the tail of the text after it.
RECURSIVE Elements(_, _, _)
Elements(text, matches, lastIndex) ==
    IF matches = << >>
    THEN IF lastIndex < Len(text) THEN << TextElement(text, lastIndex, Len(text)) >>
         ELSE << >>
    ELSE LET match == Head(matches)
         IN  IF match.start < lastIndex THEN Elements(text, Tail(matches), lastIndex)
             ELSE (IF match.start > lastIndex
                   THEN << TextElement(text, lastIndex, match.start) >> ELSE << >>)
                  \o << MatchElement(text, match) >>
                  \o Elements(text, Tail(matches), match.end)

\* HighlightText: the elements rendered for one text run.
HighlightText(text, searchQuery, chapterHighlights) ==
    IF Trim(searchQuery) = << >> /\ Len(chapterHighlights) = 0
    THEN << TextElement(text, 0, Len(text)) >>
    ELSE Elements(text, Matches(text, searchQuery, chapterHighlights), 0)

\* ------------------------------------------------------------- footer
\* A JavaScript number that is not an integer is an IEEE 754 double: zero,
\* or [m, e] for m * 2^e with m a sequence of Precision bits, the first one 1
\* and the most significant first. Every operation rounds its exact result
\* to the nearest double, ties to the even one.
Precision == 53

\* Mantissas are handled sixteen bits at a time.
DigitBits == 16

DigitBase == 65536

Zero == [m |-> << >>, e |-> 0]

\* The binary digits of a natural number, none for 0.
RECURSIVE Bits(_)
Bits(n) == IF n = 0 THEN << >> ELSE Append(Bits(n \div 2), n % 2)

RECURSIVE ToNat(_)
ToNat(bits) ==
    IF bits = << >> THEN 0
    ELSE 2 * ToNat(SubSeq(bits, 1, Len(bits) - 1)) + bits[Len(bits)]

RECURSIVE Pow2(_)
Pow2(n) == IF n = 0 THEN 1 ELSE 2 * Pow2(n - 1)

HasOne(bits) == \E k \in 1..Len(bits) : bits[k] = 1

Zeros(n) == [k \in 1..n |-> 0]

\* bits without its leading zeros.
StripZeros(bits) ==
    IF ~HasOne(bits) THEN << >>
    ELSE LET first == CHOOSE k \in 1..Len(bits) :
                          bits[k] = 1 /\ \A j \in 1..(k - 1) : bits[j] = 0
         IN  SubSeq(bits, first, Len(bits))

\* bits + 1, one bit longer when every bit was 1.
Increment(bits) ==
    IF \A k \in 1..Len(bits) : bits[k] = 1 THEN << 1 >> \o Zeros(Len(bits))
    ELSE LET last == CHOOSE k \in 1..Len(bits) :
                         bits[k] = 0 /\ \A j \in (k + 1)..Len(bits) : bits[j] = 1
         IN  [k \in 1..Len(bits) |->
                 IF k < last THEN bits[k] ELSE IF k = last THEN 1 ELSE 0]

\* The double nearest to bits * 2^e (+ a little when sticky), bits starting
\* with a 1: round to nearest, ties to even.
RoundToDouble(bits, e, sticky) ==
    IF bits = << >> THEN Zero
    ELSE IF Len(bits) <= Precision THEN [m |-> bits, e |-> e]
    ELSE LET kept == SubSeq(bits, 1, Precision)
             e2 == e + Len(bits) - Precision
             up == /\ bits[Precision + 1] = 1
                   /\ \/ sticky
                      \/ HasOne(SubSeq(bits, Precision + 2, Len(bits)))
                      \/ kept[Precision] = 1
             inc == Increment(kept)
         IN  IF ~up THEN [m |-> kept, e |-> e2]
             ELSE IF Len(inc) > Precision
                  THEN [m |-> SubSeq(inc, 1, Precision), e |-> e2 + 1]
             ELSE [m |-> inc, e |-> e2]

\* The sixteen-bit digits of bits, whose length is a multiple of sixteen, and
\* back.
ToDigits(bits) ==
    [k \in 1..(Len(bits) \div DigitBits) |->
        ToNat(SubSeq(bits, (k - 1) * DigitBits + 1, k * DigitBits))]

FromDigits(digits) ==
    [k \in 1..(Len(digits) * DigitBits) |->
        (digits[(k - 1) \div DigitBits + 1]
            \div Pow2(DigitBits - 1 - ((k - 1) % DigitBits))) % 2]

\* Zeros in front of bits to a whole number of digits.
LeftPad(bits) == (DigitBits - (Len(bits) % DigitBits)) % DigitBits

\* Long division of digits by d from the remainder r: quotient and remainder.
RECURSIVE LongDivision(_, _, _)
LongDivision(digits, d, r) ==
    IF digits = << >> THEN [q |-> << >>, r |-> r]
    ELSE LET t == r * DigitBase + Head(digits)
             rest == LongDivision(Tail(digits), d, t % d)
         IN  [q |-> << t \div d >> \o rest.q, r |-> rest.r]

\* x / d for a double x >= 0 and an integer 0 < d < 2^15: the quotient is
\* taken to eighty bits, more than a double keeps, and rounded.
DoubleDiv(x, d) ==
    IF x = Zero THEN Zero
    ELSE LET extra == 5 * DigitBits - LeftPad(x.m) - Len(x.m)
             num == Zeros(LeftPad(x.m)) \o x.m \o Zeros(extra)
             res == LongDivision(ToDigits(num), d, 0)
         IN  RoundToDouble(StripZeros(FromDigits(res.q)), x.e - extra,
                           res.r # 0)

\* digits * k + carry for an integer 0 < k < 2^15, last digit first.
RECURSIVE MultiplyDigits(_, _, _)
MultiplyDigits(digits, k, carry) ==
    IF digits = << >> THEN << carry >>
    ELSE LET t == digits[Len(digits)] * k + carry
         IN  Append(MultiplyDigits(SubSeq(digits, 1, Len(digits) - 1), k,
                                   t \div DigitBase),
                    t % DigitBase)

\* k * x for an integer k >= 0 and a double x >= 0.
DoubleTimes(k, x) ==
    IF k = 0 \/ x = Zero THEN Zero
    ELSE LET digits == ToDigits(Zeros(LeftPad(x.m)) \o x.m)
         IN  RoundToDouble(StripZeros(FromDigits(MultiplyDigits(digits, k, 0))),
                           x.e, FALSE)

\* An integer as a double.
ToDouble(n) == RoundToDouble(Bits(n), 0, FALSE)

\* Math.ceil(x) for a double x >= 0.
MathCeil(x) ==
    IF x = Zero THEN 0
    ELSE IF x.e >= 0 THEN ToNat(x.m) * Pow2(x.e)
    ELSE IF -x.e >= Len(x.m) THEN 1
    ELSE ToNat(SubSeq(x.m, 1, Len(x.m) + x.e))
         + (IF HasOne(SubSeq(x.m, Len(x.m) + x.e + 1, Len(x.m))) THEN 1 ELSE 0)

\* Math.ceil(-x) for a double x >= 0: minus the whole part of x.
MathCeilMinus(x) ==
    IF x = Zero THEN 0
    ELSE IF x.e >= 0 THEN -(ToNat(x.m) * Pow2(x.e))
    ELSE IF -x.e >= Len(x.m) THEN 0
    ELSE -ToNat(SubSeq(x.m, 1, Len(x.m) + x.e))

AVERAGE_WPM == 238

\* remainingMinutes is a whole number [n |-> n] or NaN.
NotANumber == [nan |-> TRUE]

\* remainingMinutes, for a currentPage >= 1, totalWords >= 0 and a
\* totalPages prop total that is a whole number >= 1, Infinity or NaN.
\*   total = NaN:       every operation on NaN gives NaN.
\*   total = Infinity:  wordsPerPage = totalWords / Infinity = 0,
\*                      remainingPages = Infinity - currentPage = Infinity,
\*                      remainingWords = Infinity * 0 = NaN.
\*   total < currentPage: remainingPages and remainingWords are negative.
remainingMinutes(currentPage, total, totalWords) ==
    IF ~IsFinite(total) THEN NotANumber
    ELSE LET wordsPerPage == DoubleDiv(ToDouble(totalWords), total)
             remainingPages == total - currentPage
             remainingWords == DoubleTimes(Abs(remainingPages), wordsPerPage)
         IN  IF remainingPages >= 0
             THEN [n |-> MathCeil(DoubleDiv(remainingWords, AVERAGE_WPM))]
             ELSE [n |-> MathCeilMinus(DoubleDiv(remainingWords, AVERAGE_WPM))]

\* formatTime: every comparison with NaN is false, and NaN is written "NaN".
formatTime(minutes) ==
    IF minutes = NotANumber THEN "~NaNh NaNm left"
    ELSE IF minutes.n <= 0 THEN "Almost done"
    ELSE IF minutes.n < 60 THEN "~" \o ToString(minutes.n) \o " min left"
    ELSE LET hours == minutes.n \div 60
             mins == minutes.n % 60
         IN  IF mins = 0 THEN "~" \o ToString(hours) \o "h left"
             ELSE "~" \o ToString(hours) \o "h " \o ToString(mins) \o "m left"

\* content.split(/\s+/): the pieces between runs of whitespace; piece is the
\* piece being read and inRun says the previous character was whitespace.
RECURSIVE SplitOnWhitespace(_, _, _)
SplitOnWhitespace(str, piece, inRun) ==
    IF str = << >> THEN << piece >>
    ELSE IF IsSpace(Head(str))
         THEN IF inRun THEN SplitOnWhitespace(Tail(str), piece, TRUE)
              ELSE << piece >> \o SplitOnWhitespace(Tail(str), << >>, TRUE)
    ELSE SplitOnWhitespace(Tail(str), Append(piece, Head(str)), FALSE)

\* currentChapter?.content.split(/\s+/).filter(w => w.length > 0).length || 0
\* for the chapters arr, whose records carry a content.
wordCount(arr, chapterId) ==
    IF \E i \in 1..Len(arr) : arr[i].id = chapterId
    THEN LET currentChapter == arr[CHOOSE i \in 1..Len(arr) : arr[i].id = chapterId]
         IN  Len(SelectSeq(SplitOnWhitespace(currentChapter.content, << >>, FALSE),
                           LAMBDA w : Len(w) > 0))
    ELSE 0

\* The props Reader's render hands to ReadingFooter, and the estimate the
\* footer then shows.
ReadingFooterProps ==
    [component |-> "ReadingFooter", currentPage |-> currentPageIndex + 1,
     totalPages |-> readerTotalPages, totalWords |-> wordCount(chapters, currentChapterId)]

ReadingFooterMinutes ==
    remainingMinutes(ReadingFooterProps.currentPage, ReadingFooterProps.totalPages,
                     ReadingFooterProps.totalWords)

ReadingFooterText == formatTime(ReadingFooterMinutes)

\* ------------------------------------------------------------ actions
\* contentRef.current.scrollWidth: what a calculatePages run may measure.
ScrollWidths == 0..MaxScroll

\* Date.now() at a save.
Times == {1}

\* The callbacks one render's goToNextPage / goToPrevPage invoke for a
\* sequence of intents, all raised inside one handler and so on one closure.
RECURSIVE IntentCalls(_, _, _, _)
IntentCalls(intents, pageIndex, total, chapterId) ==
    IF intents = << >> THEN << >>
    ELSE (IF Head(intents) = "advance"
          THEN goToNextPage(pageIndex, total, onNextChapter(chapters, chapterId))
          ELSE goToPrevPage(pageIndex, onPrevChapter(chapters, chapterId)))
         \o IntentCalls(Tail(intents), pageIndex, total, chapterId)

\* The store where setCurrentChapterId leaves the page index alone.
RECURSIVE ApplyCalls_KeepPage(_, _)
ApplyCalls_KeepPage(calls, st) ==
    IF calls = << >> THEN st
    ELSE ApplyCalls_KeepPage(Tail(calls),
                             IF Head(calls).fn = "onPageChange"
                             THEN [st EXCEPT !.idx = Head(calls).page]
                             ELSE [st EXCEPT !.chapter = Head(calls).chapter])

\* The store after the callbacks: handlePageChange -> setCurrentPageIndex,
\* onChapterSelect -> setCurrentChapterId (which also resets the page to 0).
RECURSIVE ApplyCalls(_, _)
ApplyCalls(calls, st) ==
    IF calls = << >> THEN st
    ELSE ApplyCalls(Tail(calls),
                    IF Head(calls).fn = "onPageChange"
                    THEN [st EXCEPT !.idx = Head(calls).page]
                    ELSE [idx |-> 0, chapter |-> Head(calls).chapter])

\* One calculatePages run on closure cl with measured scroll width s, given
\* the totalPages state it finds.
Calc(prevTotal, cl, s) ==
    LET pages == PageCount(s, cl.w)
    IN  [pages |-> pages,
         notify |-> TotalChanged(prevTotal, pages),
         clamp |-> NeedsClamp(cl.idx, pages)]

NoCalc == [pages |-> 0, notify |-> FALSE, clamp |-> FALSE]

\* Reader's totalPages state taking a notified count only when it is larger.
handleTotalPagesChange_KeepLarger(prev, notes) ==
    IF \E k \in 1..Len(notes) : notes[k].fn = "onTotalPagesChange" /\ JsLt(prev, notes[k].total)
    THEN notes[CHOOSE k \in 1..Len(notes) : notes[k].fn = "onTotalPagesChange"].total
    ELSE prev

\* Reader's totalPages state after the notifications of one calculatePages
\* run: handleTotalPagesChange -> setTotalPages(total).
handleTotalPagesChange(prev, notes) ==
    IF \E k \in 1..Len(notes) : notes[k].fn = "onTotalPagesChange"
    THEN notes[CHOOSE k \in 1..Len(notes) : notes[k].fn = "onTotalPagesChange"].total
    ELSE prev

\* A task that runs no handler of the navigation controller and no page
\* computation, as ev records it.
Event(op) == [op |-> op, arg |-> << >>, intents |-> << >>, calls |-> << >>,
              notes |-> << >>, calc |-> None, cl |-> None]

\* The rest of a task. In ev, calls are the callbacks the handler's intents
\* invoked and notes those calculatePages invoked. idx1, chapter1, dims1, pending1, wait1 are the values
\* the handler itself left; calc is None or the one calculatePages run of the
\* task, [cl, s]; restarted says the page-computation effect ran anew. The
\* re-render then re-installs the keydown listener when currentPageIndex or
\* totalPages changed, and runs the progress-save effect anew when
\* currentPageIndex or currentChapterId changed. After unmount
\* contentRef.current is null and calculatePages returns at once.
Commit(op, arg, intents, navCalls, idx1, chapter1, dims1, pending1, wait1, calc0, restarted) ==
    LET calc == IF mounted THEN calc0 ELSE None
        r == IF calc = None THEN NoCalc ELSE Calc(totalPages, calc.cl, calc.s)
        total2 == IF r.notify THEN r.pages ELSE totalPages
        idx2 == IF r.clamp THEN JsPred(r.pages) ELSE idx1
        notes == (IF r.notify THEN << TotalPagesChange(r.pages) >> ELSE << >>)
                 \o (IF r.clamp THEN << PageChange(idx2) >> ELSE << >>)
    IN  /\ currentPageIndex' = idx2
        /\ currentChapterId' = chapter1
        /\ totalPages' = total2
        /\ readerTotalPages' = handleTotalPagesChange(readerTotalPages, notes)
        /\ layoutDims' = dims1
        /\ pendingImages' = pending1
        /\ imageWait' = IF calc # None /\ pending1 > 0 THEN calc.cl ELSE wait1
        /\ keydown' = IF idx2 # keydown.idx \/ total2 # keydown.total
                      THEN [idx |-> idx2, total |-> total2, chapter |-> chapter1]
                      ELSE keydown
        /\ lastCalc' = IF lastCalc = Off \/ calc = None THEN lastCalc
                        ELSE [w |-> calc.cl.w, s |-> calc.s]
        /\ clampCount' = (IF restarted \/ total2 # totalPages THEN 0 ELSE clampCount)
                         + (IF r.clamp THEN 1 ELSE 0)
        /\ ev' = IF ev = Off THEN Off
                  ELSE [op |-> op, arg |-> arg, intents |-> intents, calls |-> navCalls,
                        notes |-> notes,
                        calc |-> IF calc = None THEN None
                                 ELSE [w |-> calc.cl.w, s |-> calc.s],
                        cl |-> IF calc = None THEN None ELSE calc.cl]
        /\ saveTimeout' = IF saveTimeout = Off THEN Off
                          ELSE IF idx2 # currentPageIndex \/ chapter1 # currentChapterId
                               THEN saveProgressDebounced(saveTimeout)
                               ELSE saveTimeout
        /\ saveHist' = IF saveHist = Off THEN Off
                       ELSE IF idx2 # currentPageIndex \/ chapter1 # currentChapterId
                            THEN [since |-> 0, saves |-> 0,
                                  burst |-> IF saveHist.saves > 0 THEN 1
                                            ELSE IF saveHist.burst < 2
                                                 THEN saveHist.burst + 1 ELSE 2]
                            ELSE saveHist
        /\ UNCHANGED << chapters, mounted, props, output, book, saving, saved, raceHist >>

\* The page-computation effect runs anew (its dependency set changed): the
\* previous run's cleanup clears both timers; with a layout it captures the
\* render's page index and width, runs calculatePages and sets both timers.
Restart(op, arg, intents, navCalls, idx1, chapter1, dims1, pending1, wait1) ==
    IF dims1 = None
    THEN /\ effect' = None
         /\ timer' = FALSE
         /\ textTimer' = FALSE
         /\ Commit(op, arg, intents, navCalls, idx1, chapter1, dims1, pending1, wait1,
                   None, TRUE)
    ELSE LET cl == [idx |-> idx1, w |-> dims1.width]
         IN  /\ effect' = cl
             /\ timer' = TRUE
             /\ textTimer' = TRUE
             /\ \E s \in ScrollWidths :
                    Commit(op, arg, intents, navCalls, idx1, chapter1, dims1, pending1,
                           wait1, [cl |-> cl, s |-> s], TRUE)

\* The resize observer reports contentRect (width, height).
Resize(width, height) ==
    /\ mounted
    /\ IF LayoutChanged(layoutDims, width, height)
       THEN /\ Restart("resize", << width, height >>, << >>, << >>, currentPageIndex,
                       currentChapterId, [width |-> width, height |-> height],
                       pendingImages, imageWait)
            /\ UNCHANGED detachedWait
       ELSE /\ Commit("resize", << width, height >>, << >>, << >>, currentPageIndex,
                      currentChapterId, layoutDims, pendingImages, imageWait, None, FALSE)
            /\ UNCHANGED << effect, timer, textTimer, detachedWait >>

\* The 100 ms timeout fires.
Timer100 ==
    /\ timer
    /\ timer' = FALSE
    /\ \E s \in ScrollWidths :
           Commit("timer", << >>, << >>, << >>, currentPageIndex, currentChapterId,
                  layoutDims, pendingImages, imageWait, [cl |-> effect, s |-> s], FALSE)
    /\ UNCHANGED << effect, textTimer, detachedWait >>

\* The 500 ms timeout fires; it was set together with the 100 ms one.
Timer500 ==
    /\ textTimer
    /\ ~timer
    /\ textTimer' = FALSE
    /\ \E s \in ScrollWidths :
           Commit("textTimer", << >>, << >>, << >>, currentPageIndex, currentChapterId,
                  layoutDims, pendingImages, imageWait, [cl |-> effect, s |-> s], FALSE)
    /\ UNCHANGED << effect, timer, detachedWait >>

\* settings.fontSize changes.
FontSizeChange ==
    /\ mounted
    /\ Restart("fontSize", << >>, << >>, << >>, currentPageIndex, currentChapterId,
               layoutDims, pendingImages, imageWait)
    /\ UNCHANGED detachedWait

\* HighlightText is rendered with the props at hand.
RenderHighlightText ==
    /\ props # Off
    /\ props.component = "HighlightText"
    /\ output = None
    /\ output' = [elements |->
                      HighlightText(props.text, props.searchQuery, props.chapterHighlights)]
    /\ UNCHANGED << chapters, currentChapterId, currentPageIndex, readerTotalPages,
                    totalPages, layoutDims, effect, timer, textTimer, keydown,
                    pendingImages, imageWait, detachedWait, clampCount, lastCalc, ev,
                    mounted, saveTimeout, saveHist, props, book, saving, saved, raceHist >>

\* ReadingFooter is rendered with the props at hand.
RenderReadingFooter ==
    /\ props # Off
    /\ props.component = "ReadingFooter"
    /\ output = None
    /\ output' = [text |-> formatTime(remainingMinutes(props.currentPage, props.totalPages,
                                                       props.totalWords))]
    /\ UNCHANGED << chapters, currentChapterId, currentPageIndex, readerTotalPages,
                    totalPages, layoutDims, effect, timer, textTimer, keydown,
                    pendingImages, imageWait, detachedWait, clampCount, lastCalc, ev,
                    mounted, saveTimeout, saveHist, props, book, saving, saved, raceHist >>

\* An image fires load or error where only load resolves the wait.
ImageSettled_ErrorStalls(kind) ==
    /\ pendingImages > 0
    /\ IF imageWait # None /\ pendingImages = 1 /\ kind = "load"
       THEN \E s \in ScrollWidths :
                Commit("image", << kind >>, << >>, << >>, currentPageIndex,
                       currentChapterId, layoutDims, 0, None,
                       [cl |-> imageWait, s |-> s], FALSE)
       ELSE Commit("image", << kind >>, << >>, << >>, currentPageIndex, currentChapterId,
                   layoutDims, pendingImages - 1, imageWait, None, FALSE)
    /\ UNCHANGED << effect, timer, textTimer, detachedWait >>

\* An image of the rendered content fires load or error. When it was the
\* last one a Promise.all waited for, .then(calculatePages) runs.
ImageSettled(kind) ==
    /\ pendingImages > 0
    /\ IF imageWait # None /\ pendingImages = 1
       THEN \E s \in ScrollWidths :
                Commit("image", << kind >>, << >>, << >>, currentPageIndex,
                       currentChapterId, layoutDims, 0, None,
                       [cl |-> imageWait, s |-> s], FALSE)
       ELSE Commit("image", << kind >>, << >>, << >>, currentPageIndex, currentChapterId,
                   layoutDims, pendingImages - 1, imageWait, None, FALSE)
    /\ UNCHANGED << effect, timer, textTimer, detachedWait >>

\* The same for an image of a content that has since been replaced.
DetachedImageSettled(kind) ==
    /\ detachedWait # None
    /\ IF detachedWait.left = 1
       THEN /\ detachedWait' = None
            /\ \E s \in ScrollWidths :
                   Commit("detachedImage", << kind >>, << >>, << >>, currentPageIndex,
                          currentChapterId, layoutDims, pendingImages, imageWait,
                          [cl |-> [idx |-> detachedWait.idx, w |-> detachedWait.w],
                           s |-> s], FALSE)
       ELSE /\ detachedWait' = [detachedWait EXCEPT !.left = @ - 1]
            /\ Commit("detachedImage", << kind >>, << >>, << >>, currentPageIndex,
                      currentChapterId, layoutDims, pendingImages, imageWait, None, FALSE)
    /\ UNCHANGED << effect, timer, textTimer >>

\* A handler raised intents on the closure (pageIndex, total, chapterId).
\* A chapter change replaces the content: its images (p of them still
\* loading) replace the old ones, which keep loading with their handlers
\* attached.
Navigate(op, arg, intents, pageIndex, total, chapterId, p) ==
    LET calls == IntentCalls(intents, pageIndex, total, chapterId)
        st == ApplyCalls(calls, [idx |-> currentPageIndex, chapter |-> currentChapterId])
    IN  /\ mounted
        /\ st.idx <= MaxPageIndex
        /\ IF st.chapter # currentChapterId
           THEN /\ detachedWait' = IF imageWait # None /\ pendingImages > 0
                                   THEN [left |-> pendingImages, idx |-> imageWait.idx,
                                         w |-> imageWait.w]
                                   ELSE detachedWait
                /\ Restart(op, arg, intents, calls, st.idx, st.chapter, layoutDims, p, None)
           ELSE /\ p = 0
                /\ Commit(op, arg, intents, calls, st.idx, st.chapter, layoutDims,
                          pendingImages, imageWait, None, FALSE)
                /\ UNCHANGED << effect, timer, textTimer, detachedWait >>

\* The prev / next button, enabled only with a destination.
Button(intent, p) ==
    /\ IF intent = "advance"
       THEN ~NextButtonDisabled(currentPageIndex, totalPages,
                                onNextChapter(chapters, currentChapterId))
       ELSE ~PrevButtonDisabled(currentPageIndex, onPrevChapter(chapters, currentChapterId))
    /\ Navigate("button", << >>, << intent >>, currentPageIndex, totalPages,
                currentChapterId, p)

\* The left / right tap zone.
TapZone(intent, p) ==
    Navigate("tap", << >>, << intent >>, currentPageIndex, totalPages, currentChapterId, p)

\* A drag release.
DragEnd(offsetX, velocityX, p) ==
    Navigate("drag", << offsetX, velocityX >>, DragIntents(offsetX, velocityX),
             currentPageIndex, totalPages, currentChapterId, p)

\* A keydown on the window: the installed listener runs on its own closure.
KeyDown(key, p) ==
    Navigate("key", << key >>, KeyIntents(key), keydown.idx, keydown.total,
             keydown.chapter, p)

\* Time passes while the progress-save timeout is pending: at most ClockStep
\* ms, and no further than the moment the timeout is due.
Tick ==
    /\ saveTimeout \notin {Off, None}
    /\ saveTimeout.ms > 0
    /\ LET d == IF saveTimeout.ms < ClockStep THEN saveTimeout.ms ELSE ClockStep
       IN  /\ saveTimeout' = [ms |-> saveTimeout.ms - d]
           /\ saveHist' = IF saveHist = Off THEN Off
                          ELSE [saveHist EXCEPT !.since = @ + d]
    /\ ev' = IF ev = Off THEN Off ELSE Event("tick")
    /\ UNCHANGED << chapters, currentChapterId, currentPageIndex, readerTotalPages,
                    totalPages, layoutDims, effect, timer, textTimer, keydown,
                    pendingImages, imageWait, detachedWait, clampCount, lastCalc,
                    mounted, props, output, book, saving, saved, raceHist >>

\* The progress-save timeout is due: saveReadingProgress is invoked.
\* saveReadingProgress reads the store, hands the updated book to saveBook
\* and awaits it; without a book it returns at once.
SaveTimeout ==
    /\ saveTimeout = [ms |-> 0]
    /\ saveTimeout' = None
    /\ saveHist' = IF saveHist = Off THEN Off ELSE [saveHist EXCEPT !.saves = @ + 1]
    /\ ev' = IF ev = Off THEN Off ELSE Event("saveReadingProgress")
    /\ IF book = Off \/ book = None
       THEN UNCHANGED << saving, saved >>
       ELSE /\ Len(saving) < MaxInFlight
            /\ \E now \in Times :
                   LET updatedBook ==
                           saveReadingProgress(book, currentChapterId, currentPageIndex, now)
                   IN  /\ saving' = Append(saving, SaveBookCall(updatedBook, "set"))
                       /\ saved' = updatedBook
    /\ UNCHANGED << chapters, currentChapterId, currentPageIndex, readerTotalPages,
                    totalPages, layoutDims, effect, timer, textTimer, keydown,
                    pendingImages, imageWait, detachedWait, clampCount, lastCalc,
                    mounted, props, output, book, raceHist >>

\* A saveBook call settles and what awaited it runs: set({ book }) for
\* saveReadingProgress and updateBook; for handleAddHighlight
\* onBookUpdate(updatedBook), which is the store's updateBook: it hands the
\* book to saveBook again and awaits that.
SaveBookSettled(i) ==
    /\ book # Off
    /\ i \in 1..Len(saving)
    /\ IF saving[i].then = "set"
       THEN /\ book' = saving[i].book
            /\ saving' = RemoveAt(saving, i)
            /\ UNCHANGED saved
       ELSE /\ saving' = Append(RemoveAt(saving, i), SaveBookCall(saving[i].book, "set"))
            /\ saved' = saving[i].book
            /\ UNCHANGED book
    /\ ev' = IF ev = Off THEN Off ELSE Event("saveBookSettled")
    /\ UNCHANGED << chapters, currentChapterId, currentPageIndex, readerTotalPages,
                    totalPages, layoutDims, effect, timer, textTimer, keydown,
                    pendingImages, imageWait, detachedWait, clampCount, lastCalc,
                    mounted, saveTimeout, saveHist, props, output, raceHist >>

\* handleAddHighlight with a text selected: the book prop with the new
\* highlight is handed to saveBook and awaited. The book prop is the store's
\* book.
handleAddHighlight(id) ==
    /\ mounted
    /\ book # Off
    /\ book # None
    /\ Len(saving) < MaxInFlight
    /\ Len(book.highlights) < MaxHighlights
    /\ \A k \in 1..Len(book.highlights) : book.highlights[k].id # id
    /\ LET updatedBook == AddHighlight(book, id, currentChapterId)
       IN  /\ saving' = Append(saving, SaveBookCall(updatedBook, "onBookUpdate"))
           /\ saved' = updatedBook
    /\ raceHist' = IF \E k \in 1..Len(saving) :
                          /\ saving[k].then = "set"
                          /\ saving[k].book.readingProgress # book.readingProgress
                   THEN [id |-> id]
                   ELSE raceHist
    /\ ev' = IF ev = Off THEN Off ELSE [Event("handleAddHighlight") EXCEPT !.arg = << id >>]
    /\ UNCHANGED << chapters, currentChapterId, currentPageIndex, readerTotalPages,
                    totalPages, layoutDims, effect, timer, textTimer, keydown,
                    pendingImages, imageWait, detachedWait, clampCount, lastCalc,
                    mounted, saveTimeout, saveHist, props, output, book >>

\* The timeouts an unmount leaves pending when the progress-save effect has
\* no cleanup.
Cleanup_KeepSaveTimeout(pending) == pending

\* An effect cleanup: clearTimeout on the pending timeout.
Cleanup(pending) == IF pending = Off THEN Off ELSE None

\* The reader is unmounted: every effect's cleanup runs (the observer is
\* disconnected, the listeners are removed, the timeouts are cleared) and
\* the refs are reset. Handlers set on <img> elements stay.
Unmount ==
    /\ mounted
    /\ mounted' = FALSE
    /\ timer' = FALSE
    /\ textTimer' = FALSE
    /\ saveTimeout' = Cleanup(saveTimeout)
    /\ ev' = IF ev = Off THEN Off ELSE Event("unmount")
    /\ UNCHANGED << chapters, currentChapterId, currentPageIndex, readerTotalPages,
                    totalPages, layoutDims, effect, keydown, pendingImages, imageWait,
                    detachedWait, clampCount, lastCalc, saveHist, props, output,
                    book, saving, saved, raceHist >>

\* ------------------------------------------------------ specification
\* After construction: the store holds the restored reading progress, the
\* reader is mounted with no layout measured yet, the keydown listener is
\* installed on the first render.
Mounted == [op |-> "mount", arg |-> << >>, intents |-> << >>, calls |-> << >>,
            notes |-> << >>, calc |-> None, cl |-> None]

\* save0 is Off, or the timeout the progress-save effect set on the first
\* render.
InitSession(arr, images, ev0, lastCalc0, save0, hist0) ==
    /\ chapters = arr
    /\ currentChapterId \in ChapterIds(arr)
    /\ currentPageIndex \in 0..MaxPageIndex
    /\ readerTotalPages = 1
    /\ totalPages = 1
    /\ layoutDims = None
    /\ effect = None
    /\ timer = FALSE
    /\ textTimer = FALSE
    /\ keydown = [idx |-> currentPageIndex, total |-> 1, chapter |-> currentChapterId]
    /\ pendingImages \in images
    /\ imageWait = None
    /\ detachedWait = None
    /\ clampCount = 0
    /\ lastCalc = lastCalc0
    /\ ev = ev0
    /\ mounted = TRUE
    /\ saveTimeout = save0
    /\ saveHist = hist0

\* The store's book and the persistence collaborator are left out.
NoStore == book = Off /\ saving = Off /\ saved = Off /\ raceHist = Off

InitReader(arr, images, ev0, lastCalc0, save0) ==
    /\ InitSession(arr, images, ev0, lastCalc0, save0,
                   IF save0 = Off THEN Off ELSE [since |-> 0, saves |-> 0, burst |-> 0])
    /\ NoStore

\* No component is rendered on its own.
NoRender == props = Off /\ output = Off

InitBook(arr, images, ev0, lastCalc0) ==
    InitReader(arr, images, ev0, lastCalc0, Off) /\ NoRender

Intents == {"advance", "retreat"}
ImageEvents == {"load", "error"}

\* The pagination engine under resize, font and image events, with taps and
\* keys as navigation (a button or a drag raises the same intents as a tap).
Init == InitBook(TwoChapters, 0..MaxImages, Off, Off)

Next ==
    \/ \E w \in {0, 2, 3} : Resize(w, 4)
    \/ Timer100
    \/ Timer500
    \/ FontSizeChange
    \/ \E k \in ImageEvents : ImageSettled(k)
    \/ \E k \in ImageEvents : DetachedImageSettled(k)
    \/ \E i \in Intents, p \in 0..MaxImages : TapZone(i, p)
    \/ \E k \in {"ArrowRight", "ArrowLeft"}, p \in 0..MaxImages : KeyDown(k, p)

Spec == Init /\ [][Next]_vars

\* The navigation controller: buttons, tap zones and keys observed, over an
\* engine that is measured and re-measured; chapters without images.
InitNav == InitBook(ThreeChapters, {0}, Mounted, Off)

NextNav ==
    \/ \E w \in {0, 2} : Resize(w, 4)
    \/ Timer100
    \/ Timer500
    \/ \E i \in Intents : Button(i, 0)
    \/ \E i \in Intents : TapZone(i, 0)
    \/ \E k \in Keys : KeyDown(k, 0)

SpecNav == InitNav /\ [][NextNav]_vars

\* The drag gesture: every release observed.
InitDrag == InitBook(TwoChapters, {0}, Mounted, Off)

NextDrag ==
    \/ Resize(2, 4)
    \/ Timer100
    \/ Timer500
    \/ \E dx \in DragOffsets, vx \in DragVelocities : DragEnd(dx, vx, 0)

SpecDrag == InitDrag /\ [][NextDrag]_vars

\* The page computation, every run observed, under every geometry the
\* observer may report.
InitCalc == InitBook(TwoChapters, 0..MaxImages, Mounted, None)

NextCalc ==
    \/ \E w \in Widths, h \in Heights : Resize(w, h)
    \/ Timer100
    \/ Timer500
    \/ FontSizeChange
    \/ \E k \in ImageEvents : ImageSettled(k)

SpecCalc == InitCalc /\ [][NextCalc]_vars

\* Images and the page computation: chapters whose images are still
\* loading, every run observed.
InitImages == InitBook(TwoChapters, 0..(MaxImages + 1), Mounted, Off)

NextImages ==
    \/ \E w \in {2, 3} : Resize(w, 4)
    \/ Timer100
    \/ Timer500
    \/ FontSizeChange
    \/ \E k \in ImageEvents : ImageSettled(k)
    \/ \E k \in ImageEvents : DetachedImageSettled(k)
    \/ \E i \in Intents, p \in 0..(MaxImages + 1) : TapZone(i, p)

SpecImages == InitImages /\ [][NextImages]_vars

\* The reader over time: the progress-save timeout against the clock, and
\* the unmount.
InitProgress ==
    InitReader(TwoChapters, 0..MaxImages, Mounted, Off, [ms |-> SAVE_DELAY]) /\ NoRender

NextProgress ==
    \/ Resize(2, 4)
    \/ Timer100
    \/ Timer500
    \/ \E k \in ImageEvents : ImageSettled(k)
    \/ \E k \in ImageEvents : DetachedImageSettled(k)
    \/ \E i \in Intents, p \in 0..MaxImages : TapZone(i, p)
    \/ Tick
    \/ SaveTimeout
    \/ Unmount

SpecProgress == InitProgress /\ [][NextProgress]_vars

\* The matcher on its own: one text run, a search query and the chapter's
\* annotations, rendered once.
TextChars == {"a", "A", " ", "\n"}
Texts == UNION { [1..n -> TextChars] : n \in 0..MaxText }

Highlight(id, text) == [id |-> id, text |-> text]

\* Annotations given together with a search query: "aa", "a  a", " ".
NoteTexts == { << "a", "a" >>, << "a", " ", " ", "a" >>, << " " >> }
NoteLists ==
    { << >> } \cup { << Highlight("h1", t) >> : t \in NoteTexts }
        \cup { << Highlight("h1", t), Highlight("h2", u) >> : t \in NoteTexts, u \in NoteTexts }

\* Search queries: none, "a", "A ".
SearchQueries == { << >>, << "a" >>, << "A", " " >> }

\* Annotations given alone: "a", ".", a newline, " A\n a ".
LoneNoteTexts == { << "a" >>, << "." >>, << "\n" >>, << " ", "A", "\n", " ", "a", " " >> }

MatcherProps ==
    { [component |-> "HighlightText", text |-> t, searchQuery |-> q, chapterHighlights |-> hs] :
          t \in Texts, q \in SearchQueries, hs \in NoteLists }
    \cup { [component |-> "HighlightText", text |-> t, searchQuery |-> << >>,
            chapterHighlights |-> << Highlight("h1", u) >>] :
                t \in Texts, u \in LoneNoteTexts }

InitMatcher ==
    /\ InitReader(TwoChapters, {0}, Off, Off, Off)
    /\ currentChapterId = "a"
    /\ currentPageIndex = 0
    /\ props \in MatcherProps
    /\ output = None

NextMatcher == RenderHighlightText

SpecMatcher == InitMatcher /\ [][NextMatcher]_vars

\* The footer on its own: page counts, pages and word counts, rendered once.
FooterTotalPages == {1, 2, 20, 22}
FooterTotalWords == {0, 238, 3332, 4760, 20000, 28560}

FooterProps ==
    { [component |-> "ReadingFooter", currentPage |-> c, totalPages |-> t, totalWords |-> w] :
          c \in 1..22, t \in FooterTotalPages, w \in FooterTotalWords }

InitFooter ==
    /\ InitReader(TwoChapters, {0}, Off, Off, Off)
    /\ currentChapterId = "a"
    /\ currentPageIndex = 0
    /\ props \in { p \in FooterProps : p.currentPage <= p.totalPages }
    /\ output = None

NextFooter == RenderReadingFooter

SpecFooter == InitFooter /\ [][NextFooter]_vars

\* The footer under the pagination engine: chapters with a content, a
\* viewport that may be measured with no width, and page turns.
ChaptersWithContent ==
    << [id |-> "b", order |-> 1, content |-> << " " >>],
       [id |-> "a", order |-> 0, content |-> << "a", " ", "\n", "a" >>] >>

InitEstimate == InitBook(ChaptersWithContent, {0}, Mounted, Off)

NextEstimate ==
    \/ \E w \in {0, 2} : Resize(w, 4)
    \/ Timer100
    \/ Timer500
    \/ \E i \in Intents : TapZone(i, 0)

SpecEstimate == InitEstimate /\ [][NextEstimate]_vars

\* The store's book and the persistence collaborator: progress saves and
\* highlight saves in flight together, the position changing by taps (no
\* layout is measured, every chapter has one page). The book is null, or the one setBook
\* loaded: with a reading progress the position was restored from it,
\* without one the position is chapters[0], page 0.
Title == "t"

LoadedBook(hs, rp) == [title |-> Title, highlights |-> hs, readingProgress |-> rp]

InitSave ==
    /\ InitSession(TwoChapters, {0}, Mounted, Off, [ms |-> SAVE_DELAY], Off)
    /\ currentPageIndex <= 1
    /\ NoRender
    /\ \/ book = None
       \/ book = LoadedBook(<< >>, ReadingProgress(currentChapterId, currentPageIndex, 0))
       \/ /\ book = LoadedBook(<< >>, None)
          /\ currentChapterId = chapters[1].id
          /\ currentPageIndex = 0
    /\ saving = << >>
    /\ saved = None
    /\ raceHist = None

NextSave ==
    \/ \E i \in Intents : TapZone(i, 0)
    \/ Tick
    \/ SaveTimeout
    \/ \E i \in 1..MaxInFlight : SaveBookSettled(i)
    \/ handleAddHighlight("h1")

SpecSave == InitSave /\ [][NextSave]_vars

\* The store's saveReadingProgress on its own: a book with a highlight, the
\* position changing by taps, progress saves in flight.
InitStore ==
    /\ InitSession(TwoChapters, {0}, Mounted, Off, [ms |-> SAVE_DELAY], Off)
    /\ NoRender
    /\ LET hs == << [id |-> "h0", chapterId |-> "a"] >>
       IN  \/ book = None
           \/ book = LoadedBook(hs, ReadingProgress(currentChapterId, currentPageIndex, 0))
           \/ /\ book = LoadedBook(hs, None)
              /\ currentChapterId = chapters[1].id
              /\ currentPageIndex = 0
    /\ saving = << >>
    /\ saved = None
    /\ raceHist = None

NextStore ==
    \/ \E i \in Intents : TapZone(i, 0)
    \/ Tick
    \/ SaveTimeout
    \/ \E i \in 1..MaxInFlight : SaveBookSettled(i)

SpecStore == InitStore /\ [][NextStore]_vars

\* Chapter handoff over books of every array order: one to three chapters
\* with distinct ids and distinct orders, no layout measured (every chapter
\* has one page), buttons and tap zones. With a chapter id the book does not
\* have Reader renders "Chapter not found" and no reading surface.
ChapterNames == {"a", "b", "c"}
ChapterOrders == {0, 2, 5}

Books ==
    { arr \in UNION { [1..n -> [id : ChapterNames, order : ChapterOrders]] : n \in 1..3 } :
          \A i, j \in 1..Len(arr) :
              i # j => (arr[i].id # arr[j].id /\ arr[i].order # arr[j].order) }

InitNotFound(arr, chapterId) ==
    /\ chapters = arr
    /\ currentChapterId = chapterId
    /\ currentPageIndex = 0
    /\ readerTotalPages = 1
    /\ totalPages = 1
    /\ layoutDims = None
    /\ effect = None
    /\ timer = FALSE
    /\ textTimer = FALSE
    /\ keydown = [idx |-> 0, total |-> 1, chapter |-> chapterId]
    /\ pendingImages = 0
    /\ imageWait = None
    /\ detachedWait = None
    /\ clampCount = 0
    /\ lastCalc = Off
    /\ ev = Mounted
    /\ mounted = FALSE
    /\ saveTimeout = Off
    /\ saveHist = Off
    /\ NoStore
    /\ NoRender

InitBooks ==
    \E arr \in Books :
        \/ InitBook(arr, {0}, Mounted, Off)
        \/ \E chapterId \in ChapterNames \ ChapterIds(arr) : InitNotFound(arr, chapterId)

NextBooks ==
    \/ \E i \in Intents : Button(i, 0)
    \/ \E i \in Intents : TapZone(i, 0)

SpecBooks == InitBooks /\ [][NextBooks]_vars

\* ------------------------------------------------------------- claims
\* The page computation has settled: a layout is measured and no timer and
\* no image callback is pending.
Settled ==
    /\ layoutDims # None
    /\ ~timer
    /\ ~textTimer
    /\ imageWait = None
    /\ detachedWait = None

\* C1: once the page computation has settled with a page count P, the page
\* index the store holds satisfies 0 <= currentPageIndex < P.
C1_SettledIndexInRange ==
    (Settled /\ IsFinite(totalPages))
        => (0 <= currentPageIndex /\ currentPageIndex < totalPages)

\* C2: when the index supplied to the page computation is >= P and the page
\* count settles at P, onPageChange(P - 1) has fired exactly once.
C2_ClampNotifiedOnce ==
    (Settled /\ IsFinite(totalPages) /\ effect.idx >= totalPages) => clampCount = 1

\* The latest task ran intent i on the closure of the current render (a
\* button or a tap zone).
FreshIntent(e, i) == e.op \in {"button", "tap"} /\ e.intents = << i >>

\* C3: an advance intent with currentPageIndex < totalPages - 1 emits
\* onPageChange(currentPageIndex + 1) and leaves the chapter alone; at
\* currentPageIndex >= totalPages - 1 it invokes onNextChapter once and emits
\* no page change when that collaborator is present, and otherwise does
\* nothing and leaves the index unchanged.
C3_Advance ==
    [][FreshIntent(ev', "advance") =>
         LET next == onNextChapter(chapters, currentChapterId)
             last == JsPred(totalPages)
         IN  /\ JsLt(currentPageIndex, last) =>
                    /\ ev'.calls = << PageChange(currentPageIndex + 1) >>
                    /\ currentPageIndex' = currentPageIndex + 1
                    /\ currentChapterId' = currentChapterId
             /\ (JsGe(currentPageIndex, last) /\ next # None) =>
                    /\ ev'.calls = << NextChapter(next.id) >>
                    /\ currentChapterId' = next.id
             /\ (JsGe(currentPageIndex, last) /\ next = None) =>
                    /\ ev'.calls = << >>
                    /\ currentPageIndex' = currentPageIndex
                    /\ currentChapterId' = currentChapterId]_vars

\* An advance on the last page of a chapter handed over to the next chapter.
C3_Witness ==
    /\ FreshIntent(ev, "advance")
    /\ ev.calls = << NextChapter(currentChapterId) >>
    /\ totalPages = 2

\* C4: a retreat intent with currentPageIndex > 0 emits
\* onPageChange(currentPageIndex - 1) and leaves the chapter alone; at
\* currentPageIndex = 0 it invokes onPrevChapter once when that collaborator
\* is present, and otherwise does nothing and leaves the index unchanged; the
\* index never becomes negative.
C4_Retreat ==
    [][FreshIntent(ev', "retreat") =>
         LET prev == onPrevChapter(chapters, currentChapterId)
         IN  /\ currentPageIndex > 0 =>
                    /\ ev'.calls = << PageChange(currentPageIndex - 1) >>
                    /\ currentPageIndex' = currentPageIndex - 1
                    /\ currentChapterId' = currentChapterId
             /\ (currentPageIndex = 0 /\ prev # None) =>
                    /\ ev'.calls = << PrevChapter(prev.id) >>
                    /\ currentChapterId' = prev.id
             /\ (currentPageIndex = 0 /\ prev = None) =>
                    /\ ev'.calls = << >>
                    /\ currentPageIndex' = currentPageIndex
                    /\ currentChapterId' = currentChapterId
             /\ currentPageIndex' >= 0]_vars

\* A retreat on the first page of the first chapter did nothing.
C4_Witness ==
    /\ FreshIntent(ev, "retreat")
    /\ ev.calls = << >>
    /\ currentPageIndex = 0
    /\ onPrevChapter(chapters, currentChapterId) = None

\* C5: in every state a key raises what the button or tap zone of the same
\* direction raises in that state: the callbacks of the installed keydown
\* listener are those of the current render.
C5_KeyboardAsButton ==
    \A i \in Intents :
        IntentCalls(<< i >>, keydown.idx, keydown.total, keydown.chapter)
            = IntentCalls(<< i >>, currentPageIndex, totalPages, currentChapterId)

\* max(1, ceil(s / w)) for w > 0, s >= 0, stated without division: the
\* least p >= 1 with p * w >= s.
IsPageCount(p, s, w) ==
    /\ p >= 1
    /\ p * w >= s
    /\ (p > 1 => (p - 1) * w < s)

\* C6: after a page computation run with viewport width W > 0 and scroll
\* width S >= 0, totalPages = max(1, ceil(S / W)) (so S = 0 gives 1), and
\* totalPages >= 1 in every reachable state.
C6_PageCount ==
    /\ (ev.calc # None /\ ev.calc.w > 0) =>
           /\ IsFinite(totalPages)
           /\ IsPageCount(totalPages, ev.calc.s, ev.calc.w)
    /\ JsGe(totalPages, 1)

\* C7: an observed viewport width that is zero or negative is no
\* measurement: no page computation runs on it, totalPages keeps its value
\* and neither onTotalPagesChange nor onPageChange is invoked.
C7_ZeroWidthIgnored ==
    [][(ev'.op = "resize" /\ ev'.arg[1] <= 0) =>
         /\ ev'.calc = None
         /\ totalPages' = totalPages
         /\ ev'.notes = << >>]_vars

\* C8: a page computation run on the viewport width and scroll width of the
\* run before it, the content and font size unchanged, yields the same
\* totalPages, leaves the state unchanged and does not notify
\* onTotalPagesChange again.
C8_Idempotent ==
    [][(ev'.calc # None /\ ev'.calc = lastCalc /\ ev'.op # "fontSize") =>
         /\ totalPages' = totalPages
         /\ \A k \in 1..Len(ev'.notes) : ev'.notes[k].fn # "onTotalPagesChange"]_vars

\* C9 as claimed: one advance when dx < -50 or vx < -500, one retreat when
\* dx > 50 or vx > 500, nothing when |dx| <= 50 and |vx| <= 500, and never
\* more than one intent.
C9_DragAsClaimed ==
    [][ev'.op = "drag" =>
         LET dx == ev'.arg[1]
             vx == ev'.arg[2]
         IN  /\ (dx < -50 \/ vx < -500) => ev'.intents = << "advance" >>
             /\ (dx > 50 \/ vx > 500) => ev'.intents = << "retreat" >>
             /\ (Abs(dx) <= 50 /\ Abs(vx) <= 500) => ev'.intents = << >>
             /\ Len(ev'.intents) <= 1]_vars

\* C9 as amended: one advance when dx < -50 or vx < -500; one retreat when
\* dx > 50 or vx > 500 and the release is not an advance; nothing when
\* |dx| <= 50 and |vx| <= 500; never more than one intent, and each intent
\* runs goToNextPage / goToPrevPage once.
C9_Drag ==
    [][ev'.op = "drag" =>
         LET dx == ev'.arg[1]
             vx == ev'.arg[2]
             advance == dx < -50 \/ vx < -500
         IN  /\ advance => ev'.intents = << "advance" >>
             /\ ((dx > 50 \/ vx > 500) /\ ~advance) => ev'.intents = << "retreat" >>
             /\ (Abs(dx) <= 50 /\ Abs(vx) <= 500) => ev'.intents = << >>
             /\ Len(ev'.intents) <= 1
             /\ Len(ev'.calls) <= 1
             /\ ev'.intents = << >> => (ev'.calls = << >> /\ UNCHANGED currentPageIndex)]_vars

\* A release dragged past the threshold to the left and flicked back to the
\* right advanced the page.
C9_Witness ==
    /\ ev.op = "drag"
    /\ ev.arg = << -60, 600 >>
    /\ ev.intents = << "advance" >>
    /\ ev.calls = << PageChange(1) >>

\* C10: an observation (w, h) replaces layoutDims by (w, h) when layoutDims
\* is unset or |w - width| > 1 or |h - height| > 1; otherwise layoutDims
\* stays as it is and no page computation is triggered.
C10_Hysteresis ==
    [][ev'.op = "resize" =>
         LET w == ev'.arg[1]
             h == ev'.arg[2]
             significant == \/ layoutDims = None
                            \/ Abs(w - layoutDims.width) > 1
                            \/ Abs(h - layoutDims.height) > 1
         IN  /\ significant => layoutDims' = [width |-> w, height |-> h]
             /\ ~significant =>
                    /\ layoutDims' = layoutDims
                    /\ ev'.calc = None
                    /\ UNCHANGED << effect, timer, textTimer, totalPages >>]_vars

\* An observation one unit off in both directions was ignored while the
\* timers of the measured layout were still pending.
C10_Witness ==
    /\ ev.op = "resize"
    /\ layoutDims = [width |-> 2, height |-> 4]
    /\ ev.arg = << 3, 5 >>
    /\ timer

\* C11: whenever the dependency set (layoutDims, content, font size)
\* changes, every deferred recomputation of the previous set is cancelled:
\* every page computation that runs, from the 100 ms timer, the 500 ms timer
\* or an image-load wait, uses the viewport width and the page index that
\* the live effect captured.
C11_StaleRunsCancelled ==
    [][ev'.cl # None => ev'.cl = effect']_vars

\* C12: when a page computation found images still loading, the page
\* computation runs again once the last of them has fired load or error, an
\* error counting as a load; and the immediate, the 100 ms and the 500 ms
\* computation each produce a page count whether or not images are pending.
C12_ImageWait ==
    [][/\ (ev'.op = "image" /\ imageWait # None /\ pendingImages' = 0) =>
              /\ ev'.calc # None
              /\ totalPages' = PageCount(ev'.calc.s, ev'.calc.w)
       /\ (ev'.op = "detachedImage" /\ detachedWait' = None) => ev'.calc # None
       /\ (ev'.op = "image" /\ pendingImages' > 0) =>
              /\ ev'.calc = None
              /\ pendingImages' = pendingImages - 1
       /\ (\/ ev'.op \in {"timer", "textTimer"}
           \/ ev'.op = "fontSize" /\ layoutDims # None
           \/ ev'.op = "resize" /\ layoutDims' # layoutDims
           \/ currentChapterId' # currentChapterId /\ layoutDims # None) =>
              /\ ev'.calc # None
              /\ totalPages' = PageCount(ev'.calc.s, ev'.calc.w)]_vars

\* Of two images found loading, one had loaded and the other then failed:
\* the page computation ran again on the error.
C12_Witness ==
    /\ ev.op = "image"
    /\ ev.arg = << "error" >>
    /\ ev.calc # None
    /\ pendingImages = 0
    /\ timer

\* Both timers ran their computation while an image never settled.
C12_WitnessPending ==
    /\ ev.op = "textTimer"
    /\ ev.calc # None
    /\ pendingImages > 0

\* C13: over a burst of page-index or chapter changes less than 500 ms
\* apart, saveReadingProgress is invoked exactly once, 500 ms after the last
\* change, and never while a newer change is within its 500 ms: while the
\* reader is mounted, until the save the timeout is pending and due 500 ms
\* after the last change, and after the save none is pending.
C13_DebouncedSave ==
    mounted =>
        /\ saveHist.saves <= 1
        /\ saveHist.saves = 0 => saveTimeout = [ms |-> SAVE_DELAY - saveHist.since]
        /\ saveHist.saves = 1 => (saveTimeout = None /\ saveHist.since = SAVE_DELAY)

\* Two changes or more, the last one a page turn 500 ms ago, were saved once.
C13_Witness ==
    /\ ev.op = "saveReadingProgress"
    /\ saveHist = [since |-> SAVE_DELAY, saves |-> 1, burst |-> 2]
    /\ mounted

\* C14: after the unmount no timer, observation, listener or image-load
\* callback changes totalPages or layoutDims or invokes onPageChange,
\* onTotalPagesChange or saveReadingProgress.
C14_NothingAfterUnmount ==
    [][~mounted =>
         /\ totalPages' = totalPages
         /\ readerTotalPages' = readerTotalPages
         /\ layoutDims' = layoutDims
         /\ currentPageIndex' = currentPageIndex
         /\ ev'.calc = None
         /\ ev'.notes = << >>
         /\ ev'.calls = << >>
         /\ ev'.op # "saveReadingProgress"
         /\ saveHist'.saves = saveHist.saves]_vars

\* The image a page computation waited for loaded after the unmount, which
\* came within 500 ms of a change.
C14_Witness ==
    /\ ~mounted
    /\ ev.op = "image"
    /\ layoutDims # None
    /\ pendingImages = 0
    /\ saveHist.since < SAVE_DELAY
    /\ saveHist.burst > 0

C16_ButtonsReflectNoOp ==
    LET prev == onPrevChapter(chapters, currentChapterId)
        next == onNextChapter(chapters, currentChapterId)
        prevOff == PrevButtonDisabled(currentPageIndex, prev)
        nextOff == NextButtonDisabled(currentPageIndex, totalPages, next)
    IN  /\ prevOff <=> PrevButtonHidden(currentPageIndex, prev)
        /\ prevOff <=> (goToPrevPage(currentPageIndex, prev) = << >>)
        /\ prevOff <=> (currentPageIndex = 0 /\ prev = None)
        /\ nextOff <=> NextButtonHidden(currentPageIndex, totalPages, next)
        /\ nextOff <=> (goToNextPage(currentPageIndex, totalPages, next) = << >>)
        /\ IsFinite(totalPages) =>
               (nextOff <=> (currentPageIndex >= totalPages - 1 /\ next = None))

\* On the last page of the last chapter the next button is off and the
\* previous button is on.
C16_Witness ==
    /\ NextButtonDisabled(currentPageIndex, totalPages,
                          onNextChapter(chapters, currentChapterId))
    /\ ~PrevButtonDisabled(currentPageIndex, onPrevChapter(chapters, currentChapterId))
    /\ currentPageIndex = 1
    /\ totalPages = 2

\* HighlightText has rendered its props.
Rendered == props # Off /\ props.component = "HighlightText" /\ output # None

RECURSIVE ConcatText(_)
ConcatText(elements) ==
    IF elements = << >> THEN << >>
    ELSE Head(elements).text \o ConcatText(Tail(elements))

\* C17: for every text, search query and annotation list the elements are a
\* partition of the text: in ascending offset order, each the slice of its
\* offsets, no two overlapping, a tagged span never empty, and their texts
\* concatenated in order are the text.
C17_Partition ==
    Rendered =>
        LET els == output.elements
        IN  /\ ConcatText(els) = props.text
            /\ \A k \in 1..Len(els) :
                   /\ 0 <= els[k].start /\ els[k].start <= els[k].end
                   /\ els[k].end <= Len(props.text)
                   /\ els[k].text = Slice(props.text, els[k].start, els[k].end)
                   /\ els[k].type # "text" => els[k].start < els[k].end
                   /\ k < Len(els) => els[k].end <= els[k + 1].start

\* A text rendered as an annotation span and a literal, the matches that
\* start inside the span skipped.
C17_Witness ==
    /\ Rendered
    /\ { output.elements[k].type : k \in 1..Len(output.elements) } = {"text", "note"}
    /\ Len(Matches(props.text, props.searchQuery, props.chapterHighlights))
           = Len(output.elements) + 1
    /\ Trim(props.searchQuery) # << >>

\* The match is rendered as an element of its own.
IsRendered(match) ==
    \E k \in 1..Len(output.elements) :
        /\ output.elements[k].type = match.type
        /\ output.elements[k].start = match.start
        /\ output.elements[k].end = match.end
        /\ match.type = "note" => output.elements[k].id = match.data.id

\* A span rendered from a smaller offset extends past offset at.
Covered(at) ==
    \E k \in 1..Len(output.elements) :
        /\ output.elements[k].type # "text"
        /\ output.elements[k].start < at
        /\ at < output.elements[k].end

\* C18 as claimed: of a search match and an annotation match that start at
\* the same offset exactly one is rendered, the one that comes first in the
\* merged start-sorted list, which is the search match; the other is dropped.
C18_TieAsClaimed ==
    Rendered =>
        LET merged == Matches(props.text, props.searchQuery, props.chapterHighlights)
        IN  \A i, j \in 1..Len(merged) :
                (/\ merged[i].type = "search"
                 /\ merged[j].type = "note"
                 /\ merged[i].start = merged[j].start) =>
                    /\ i < j
                    /\ IsRendered(merged[i])
                    /\ ~IsRendered(merged[j])

\* C18 as amended: the same where no span rendered from a smaller offset
\* extends past the common offset; where one does, both are dropped.
C18_Tie ==
    Rendered =>
        LET merged == Matches(props.text, props.searchQuery, props.chapterHighlights)
        IN  \A i, j \in 1..Len(merged) :
                (/\ merged[i].type = "search"
                 /\ merged[j].type = "note"
                 /\ merged[i].start = merged[j].start) =>
                    /\ i < j
                    /\ ~IsRendered(merged[j])
                    /\ IsRendered(merged[i]) <=> ~Covered(merged[i].start)

\* "aa" searched for "a" and annotated "aa": the mark on the first a is
\* rendered and the annotation, which starts there as well, is not.
C18_Witness ==
    /\ Rendered
    /\ props.text = << "a", "a" >>
    /\ props.searchQuery = << "a" >>
    /\ props.chapterHighlights = << Highlight("h1", << "a", "a" >>) >>
    /\ output.elements = << [type |-> "search", start |-> 0, end |-> 1, text |-> << "a" >>],
                            [type |-> "search", start |-> 1, end |-> 2, text |-> << "a" >>] >>

\* The words of an annotation: its text with whitespace runs collapsed to
\* one space, trimmed, and cut at the spaces.
Words(noteText) == SplitOnSpace(Trim(CollapseSpaces(noteText)), << >>)

\* The end of word read case-insensitively at offset i, or -1.
RECURSIVE WordEnd(_, _, _)
WordEnd(text, i, word) ==
    IF word = << >> THEN i
    ELSE IF i < Len(text) /\ ToLower(text[i + 1]) = ToLower(Head(word))
         THEN WordEnd(text, i + 1, Tail(word))
    ELSE -1

\* The end of the occurrence of the words at offset i, one or more
\* whitespace characters between two of them, or -1.
RECURSIVE OccurrenceEnd(_, _, _)
OccurrenceEnd(text, i, words) ==
    LET e == WordEnd(text, i, Head(words))
    IN  IF e = -1 \/ Len(words) = 1 THEN e
        ELSE IF SpaceRunEnd(text, e) = e THEN -1
        ELSE OccurrenceEnd(text, SpaceRunEnd(text, e), Tail(words))

\* The occurrences met reading the text from offset from on, each search
\* resuming where the occurrence before it ends.
RECURSIVE ScanOccurrences(_, _, _)
ScanOccurrences(text, words, from) ==
    LET starts == { i \in from..Len(text) : OccurrenceEnd(text, i, words) # -1 }
    IN  IF starts = { } THEN << >>
        ELSE LET i == CHOOSE k \in starts : \A j \in starts : k <= j
             IN  << [start |-> i, end |-> OccurrenceEnd(text, i, words)] >>
                 \o ScanOccurrences(text, words, OccurrenceEnd(text, i, words))

\* The spans the pass of the k-th annotation found.
NoteSpans(k) ==
    LET found == NoteMatches(props.text, props.chapterHighlights[k], k - 1)
    IN  [n \in 1..Len(found) |-> [start |-> found[n].start, end |-> found[n].end]]

\* C19 as claimed: an annotation of words w1..wn matches every occurrence
\* of w1..wn in the text, case-insensitively, with one or more whitespace
\* characters between the words, as one span over the whole occurrence; an
\* annotation of whitespace only gives no span.
C19_EveryOccurrence ==
    Rendered =>
        \A k \in 1..Len(props.chapterHighlights) :
            LET noteText == props.chapterHighlights[k].text
                spans == NoteSpans(k)
            IN  IF Trim(noteText) = << >> THEN spans = << >>
                ELSE \A i \in 0..Len(props.text) :
                         OccurrenceEnd(props.text, i, Words(noteText)) # -1 =>
                             \E n \in 1..Len(spans) :
                                 spans[n] = [start |-> i,
                                             end |-> OccurrenceEnd(props.text, i,
                                                                   Words(noteText))]

\* C19 as amended: the spans of an annotation are the occurrences met
\* reading the text from left to right, each search resuming at the end of
\* the occurrence before it, so an occurrence that overlaps one already
\* matched is not matched; each span covers its whole occurrence, and an
\* annotation given alone has exactly these spans rendered.
C19_Occurrences ==
    Rendered =>
        /\ \A k \in 1..Len(props.chapterHighlights) :
               LET noteText == props.chapterHighlights[k].text
               IN  IF Trim(noteText) = << >> THEN NoteSpans(k) = << >>
                   ELSE NoteSpans(k) = ScanOccurrences(props.text, Words(noteText), 0)
        /\ (Trim(props.searchQuery) = << >> /\ Len(props.chapterHighlights) = 1) =>
               \A n \in 1..Len(NoteSpans(1)) :
                   \E e \in 1..Len(output.elements) :
                       /\ output.elements[e].type = "note"
                       /\ output.elements[e].start = NoteSpans(1)[n].start
                       /\ output.elements[e].end = NoteSpans(1)[n].end

\* The annotation "a  a", with two spaces, is one span over "a\na".
C19_Witness ==
    /\ Rendered
    /\ props.text = << "a", "\n", "a" >>
    /\ props.searchQuery = << >>
    /\ props.chapterHighlights = << Highlight("h1", << "a", " ", " ", "a" >>) >>
    /\ output.elements = << [type |-> "note", start |-> 0, end |-> 3,
                             text |-> << "a", "\n", "a" >>, id |-> "h1", index |-> 1] >>

\* ceil((total - currentPage) * totalWords / (total * 238)) in exact
\* arithmetic.
ExactMinutes(currentPage, total, totalWords) ==
    ((total - currentPage) * totalWords + total * 238 - 1) \div (total * 238)

ClaimedFormat(min) ==
    IF min <= 0 THEN "Almost done"
    ELSE IF min < 60 THEN "~" \o ToString(min) \o " min left"
    ELSE IF min % 60 = 0 THEN "~" \o ToString(min \div 60) \o "h left"
    ELSE "~" \o ToString(min \div 60) \o "h " \o ToString(min % 60) \o "m left"

\* C20: for totalPages >= 1, totalWords >= 0 and 1 <= currentPage <=
\* totalPages the footer shows m = ceil((totalPages - currentPage) *
\* totalWords / (totalPages * 238)) minutes, as "Almost done" when m <= 0,
\* "~m min left" when 0 < m < 60, "~Hh left" when m is a positive multiple of
\* 60 and "~Hh Mm left" otherwise; 4760 words, 20 pages, page 10 gives
\* "~10 min left".
C20_RemainingMinutes ==
    (props # Off /\ props.component = "ReadingFooter" /\ output # None) =>
        /\ output.text = ClaimedFormat(ExactMinutes(props.currentPage, props.totalPages,
                                                    props.totalWords))
        /\ (props.totalWords = 4760 /\ props.totalPages = 20 /\ props.currentPage = 10)
               => output.text = "~10 min left"

\* C21: for every page count the pagination engine delivers and every word
\* count, zero words included, the estimate the footer shows is a finite
\* number of minutes or "Almost done", never the non-finite result of a
\* division by zero.
C21_EstimateFinite ==
    mounted =>
        /\ ReadingFooterMinutes # NotANumber
        /\ ReadingFooterText # "~NaNh NaNm left"

\* C22: saveReadingProgress with a loaded book hands to saveBook a book whose
\* one readingProgress record holds the store's currentChapterId and
\* currentPageIndex at the time of the call, in place of any earlier record,
\* every other field of the book as it was, and leaves currentChapterId and
\* currentPageIndex alone, also when the save settles and the book is set;
\* with no book loaded it saves nothing and changes no state.
C22_SaveReadingProgress ==
    [][/\ ev'.op = "saveReadingProgress" =>
            /\ currentChapterId' = currentChapterId
            /\ currentPageIndex' = currentPageIndex
            /\ book' = book
            /\ IF book = None
               THEN saving' = saving /\ saved' = saved
               ELSE /\ saving' = Append(saving, [book |-> saved', then |-> "set"])
                    /\ DOMAIN saved' = DOMAIN book
                    /\ DOMAIN saved'.readingProgress = {"chapterId", "pageIndex", "lastRead"}
                    /\ saved'.readingProgress.chapterId = currentChapterId
                    /\ saved'.readingProgress.pageIndex = currentPageIndex
                    /\ \A f \in DOMAIN book \ {"readingProgress"} : saved'[f] = book[f]
       /\ ev'.op = "saveBookSettled" =>
            /\ currentChapterId' = currentChapterId
            /\ currentPageIndex' = currentPageIndex
            /\ book' # book => \E i \in 1..Len(saving) :
                                   saving[i].then = "set" /\ book' = saving[i].book
      ]_vars

\* A save that replaced an earlier record in a book with a highlight.
C22_Witness ==
    /\ ev.op = "saveReadingProgress"
    /\ book # None
    /\ book.highlights # << >>
    /\ book.readingProgress # None
    /\ saved.readingProgress # book.readingProgress
    /\ saved.readingProgress.chapterId # book.readingProgress.chapterId

\* saveReadingProgress was called with no book loaded.
C22_WitnessNoBook ==
    /\ ev.op = "saveReadingProgress"
    /\ book = None
    /\ saved = None

\* C26: when a highlight was added while a saveReadingProgress awaited its
\* save, then once every save has settled and none is due the book the store
\* holds and the book last handed to saveBook both contain the highlight and
\* the reading progress of the current position.
C26_NoLostUpdate ==
    (/\ raceHist # Off
     /\ raceHist # None
     /\ saving = << >>
     /\ saveTimeout = None) =>
        \A b \in {book, saved} :
            /\ \E k \in 1..Len(b.highlights) : b.highlights[k].id = raceHist.id
            /\ b.readingProgress # None
            /\ b.readingProgress.chapterId = currentChapterId
            /\ b.readingProgress.pageIndex = currentPageIndex

\* C23: a run of the page computation emits the clamping onPageChange only
\* when the page index the store holds at that moment is >= the page count
\* the run computed: a user who has moved to a page in range since the effect
\* started is never moved off it by a later run.
C23_ClampOnlyOutOfRange ==
    [][(/\ ev'.calc # None
        /\ \E k \in 1..Len(ev'.notes) : ev'.notes[k].fn = "onPageChange")
           => JsGe(currentPageIndex, PageCount(ev'.calc.s, ev'.calc.w))]_vars

\* The chapter of arr with the given id, and the one that comes next after
\* it (dir = 1) or before it (dir = -1) by order, None when there is none.
ChapterOf(arr, chapterId) == arr[CHOOSE i \in 1..Len(arr) : arr[i].id = chapterId]

NeighbourByOrder(arr, chapterId, dir) ==
    LET cur == ChapterOf(arr, chapterId)
        beyond == { i \in 1..Len(arr) : dir * arr[i].order > dir * cur.order }
    IN  IF beyond = {} THEN None
        ELSE [id |-> arr[CHOOSE i \in beyond :
                             \A j \in beyond : dir * arr[i].order <= dir * arr[j].order].id]

\* C24: whatever the order of the chapters array, an advance on the last
\* page selects the chapter that follows the current one in ascending order
\* and a retreat on the first page the one that precedes it; past either end
\* of that order, or with a current chapter id the book does not have, no
\* collaborator is offered.
C24_HandoffInOrder ==
    /\ [](IF currentChapterId \in ChapterIds(chapters)
          THEN /\ onNextChapter(chapters, currentChapterId)
                      = NeighbourByOrder(chapters, currentChapterId, 1)
               /\ onPrevChapter(chapters, currentChapterId)
                      = NeighbourByOrder(chapters, currentChapterId, -1)
          ELSE /\ onNextChapter(chapters, currentChapterId) = None
               /\ onPrevChapter(chapters, currentChapterId) = None)
    /\ [][/\ (FreshIntent(ev', "advance") /\ JsGe(currentPageIndex, JsPred(totalPages))) =>
               LET next == NeighbourByOrder(chapters, currentChapterId, 1)
               IN  IF next = None
                   THEN ev'.calls = << >> /\ currentChapterId' = currentChapterId
                   ELSE ev'.calls = << NextChapter(next.id) >> /\ currentChapterId' = next.id
          /\ (FreshIntent(ev', "retreat") /\ currentPageIndex = 0) =>
               LET prev == NeighbourByOrder(chapters, currentChapterId, -1)
               IN  IF prev = None
                   THEN ev'.calls = << >> /\ currentChapterId' = currentChapterId
                   ELSE ev'.calls = << PrevChapter(prev.id) >> /\ currentChapterId' = prev.id
         ]_vars

\* An advance handed over from the chapter stored last in the array to the
\* one stored first, which is neither first nor last by order.
C24_Witness ==
    /\ Len(chapters) = 3
    /\ FreshIntent(ev, "advance")
    /\ ev.calls = << NextChapter(chapters[1].id) >>
    /\ currentChapterId = chapters[1].id
    /\ chapters[3].order < chapters[1].order
    /\ chapters[1].order < chapters[2].order

\* A book without the current chapter id: no collaborator either way.
C24_WitnessNotFound ==
    /\ currentChapterId \notin ChapterIds(chapters)
    /\ ~mounted

\* C25: Reader's totalPages equals PagedReader's in every state: both start
\* at 1 and change only together, in a task whose page computation sent the
\* total-pages notification with the new count.
C25_TotalPagesMirrored ==
    /\ [](readerTotalPages = totalPages)
    /\ [][(totalPages' # totalPages \/ readerTotalPages' # readerTotalPages) =>
              /\ ev'.notes # << >>
              /\ ev'.notes[1] = TotalPagesChange(totalPages')
              /\ readerTotalPages' = totalPages']_vars

\* The count went up and has come back down to 1, notified each time.
C25_Witness ==
    /\ ev.notes # << >>
    /\ ev.notes[1] = TotalPagesChange(1)
    /\ totalPages = 1
    /\ readerTotalPages = 1

====
